---- MODULE Spec2Model ----
(***************************************************************************)
(* Tenant / user identity core of the multi-tenant MLOps front end, and    *)
(* the tenant scoping of the gateway.                                      *)
(*                                                                         *)
(*   src/frontend/user_management.py   credential store, hashing, tenant   *)
(*                                     registry, user directory, login     *)
(*   src/frontend/app.py               the Streamlit session around it     *)
(*   src/gateway/main.py               tenant-scoped MLflow endpoints      *)
(*                                                                         *)
(* The specifications share the variables:                                 *)
(*   Spec      sequential calls of create_tenant / add_user /              *)
(*             authenticate_user, each call one atomic step                *)
(*   SpecUI    one browser session of app.py driving the same calls        *)
(*   SpecConc  concurrent create_tenant / add_user calls, one step per     *)
(*             file operation (open, flock, read, write, close)            *)
(*   SpecScope tenant-scoped requests in flight on the gateway and the     *)
(*             front end, one step per use of mlflow's tracking URI        *)
(*   SpecFault sequential calls on a store whose reads and writes can fail *)
(*   SpecGateway the tenant-management endpoints of the gateway            *)
(*   SpecHash  hash_password / verify_password on either bcrypt behaviour  *)
(*   SpecRead  safe_read_json, one step per statement and per frame        *)
(*   SpecFrame sequential calls of all five operations, listings included  *)
(*   SpecLock  the callers of SpecConc under a fair scheduler              *)
(***************************************************************************)
EXTENDS Naturals, FiniteSets, Sequences, TLC

(***************************************************************************)
(* Bounds of the model                                                     *)
(***************************************************************************)
\* number of successful writes of the document in one behaviour
MaxWrites == 2
\* concurrent callers in SpecConc
NumProcs == 2

(***************************************************************************)
(* Inputs                                                                  *)
(***************************************************************************)
TenantIds == {"acme", "dup"}
Usernames == {"admin", "bob"}
Passwords == {"pw123!", "pw456!"}
\* "guest" stands for every role string that is neither admin nor viewer
RoleArgs == {"admin", "viewer", "guest"}
\* (tenant_name, mlflow_uri, artifact_root) argument triples
TenantProfiles ==
    { [name |-> "Acme",  mlflow_uri |-> "uri_a", artifact_root |-> "/art/a"],
      [name |-> "Other", mlflow_uri |-> "uri_b", artifact_root |-> "/art/b"] }
Procs == 1..NumProcs

\* Python's None
None == "None"

VARIABLES
    \* tenants_data/tenants_users.json and tenants_data/tenants_users.json.bak
    primary, backup,
    \* datetime.now(): a logical clock, one tick per completed write
    now,
    \* the last call of the core and what it returned
    ret,
    \* history: number of create_tenant calls that returned True, per tenant_id
    created_ok,
    \* history: the plaintext each stored digest was produced from
    plaintext,
    \* st.session_state of one browser session
    authenticated_user, user_role, current_tenant, show_user_management,
    \* the callers / requests in flight, and the flock state of the two files
    proc, lockP, lockB,
    \* the gateway's TenantManager.tenants (tenants.json as loaded)
    tenants,
    \* mlflow's tracking URI, a global of each server process
    tracking_uri

storeVars   == <<primary, backup, now>>
histVars    == <<created_ok, plaintext>>
sessionVars == <<authenticated_user, user_role, current_tenant,
                 show_user_management>>
concVars    == <<proc, lockP, lockB>>
scopeVars   == <<tenants, tracking_uri>>
vars == <<primary, backup, now, ret, created_ok, plaintext,
          authenticated_user, user_role, current_tenant,
          show_user_management, proc, lockP, lockB,
          tenants, tracking_uri>>

(***************************************************************************)
(* Python dicts: functions with a finite domain                            *)
(***************************************************************************)
EmptyDict == [k \in {} |-> {}]

\* d[k] = v
DictSet(d, k, v) == [x \in DOMAIN d \cup {k} |-> IF x = k THEN v ELSE d[x]]

(***************************************************************************)
(* json.dump / json.load.  The text of an object is the set of its         *)
(* "key": value members; the two levels of dicts of the document (tenants, *)
(* users) are serialised and parsed back.                                  *)
(***************************************************************************)
JsonDumpObject(d) == { <<k, d[k]>> : k \in DOMAIN d }

JsonLoadObject(members) ==
    [k \in { m[1] : m \in members } |->
        (CHOOSE m \in members : m[1] = k)[2]]

JsonDump(data) ==
    JsonDumpObject([t \in DOMAIN data |->
        [data[t] EXCEPT !.users = JsonDumpObject(@)]])

\* faulty variant: every timestamp of a tenant record is read back as 0
JsonLoad_no_timestamp(text) ==
    LET obj == JsonLoadObject(text)
    IN  [t \in DOMAIN obj |->
            [obj[t] EXCEPT !.users = JsonLoadObject(@), !.created_at = 0]]

JsonLoad(text) ==
    LET obj == JsonLoadObject(text)
    IN  [t \in DOMAIN obj |-> [obj[t] EXCEPT !.users = JsonLoadObject(@)]]

(***************************************************************************)
(* Files.  kind: absent | empty (truncated by open(..., 'w'), nothing      *)
(* flushed yet) | garbage (bytes that do not parse) | json                 *)
(***************************************************************************)
AbsentFile  == [kind |-> "absent",  text |-> {}]
EmptyFile   == [kind |-> "empty",   text |-> {}]
GarbageFile == [kind |-> "garbage", text |-> {}]
JsonFile(data) == [kind |-> "json", text |-> JsonDump(data)]

\* os.path.exists
PathExists(file) == file.kind # "absent"

\* json.load does not raise JSONDecodeError
Parses(file) == file.kind = "json"

(***************************************************************************)
(* safe_read_json                                                          *)
(***************************************************************************)
\* faulty variant: a corrupt primary is never recovered from the backup
safe_read_backup_none(bak) == EmptyDict

\* safe_read_json(BACKUP_FILE): a backup that does not parse re-enters
\* safe_read_json(BACKUP_FILE) until RecursionError, which the except clause
\* turns into {}
safe_read_backup(bak) ==
    IF ~PathExists(bak) THEN EmptyDict
    ELSE IF Parses(bak) THEN JsonLoad(bak.text)
    ELSE EmptyDict

safe_read_json(file, bak) ==
    IF ~PathExists(file) THEN EmptyDict
    ELSE IF Parses(file) THEN JsonLoad(file.text)
    ELSE IF PathExists(bak) THEN safe_read_backup(bak)
    ELSE EmptyDict

load_tenant_users == safe_read_json(primary, backup)

(***************************************************************************)
(* safe_write_json, as one step (no concurrent caller, no fault)           *)
(***************************************************************************)
\* faulty variant: the primary is overwritten without the backup copy
BackupAfterWrite_no_copy(file, bak) == bak

\* dst.write(src.read()) when the primary exists
BackupAfterWrite(file, bak) == IF PathExists(file) THEN file ELSE bak

PrimaryAfterWrite(data) == JsonFile(data)

save_tenant_users(data) ==
    /\ backup' = BackupAfterWrite(primary, backup)
    /\ primary' = PrimaryAfterWrite(data)
    /\ now' = now + 1

(***************************************************************************)
(* hash_password / verify_password.  bcrypt is an ideal salted hash: the   *)
(* digest names the salt and is a one-way term over the salt and the       *)
(* first 72 bytes of the password.                                         *)
(***************************************************************************)
\* bcrypt reads at most this many bytes of the password
BcryptMaxBytes == 72

\* the bytes of password.encode('utf-8') that enter the digest
BcryptInput(password) ==
    IF Len(password) > BcryptMaxBytes
    THEN SubSeq(password, 1, BcryptMaxBytes)
    ELSE password

bcrypt_hashpw(password, salt) ==
    [salt |-> salt, digest |-> <<"bcrypt", salt, BcryptInput(password)>>]

hash_password(password, salt) == bcrypt_hashpw(password, salt)

\* bcrypt.gensalt(): a salt no earlier call drew (the clock ticks at every
\* write, and every digest is stored by a write)
gensalt == now

\* bcrypt.checkpw: rehash with the salt the digest names, compare
verify_password(password, hashed) ==
    bcrypt_hashpw(password, hashed.salt) = hashed

(***************************************************************************)
(* create_tenant                                                           *)
(***************************************************************************)
\* faulty variant: the existence test never fires
AlreadyExists_never(data, tenant_id) == FALSE

\* create_tenant's "if tenant_id in data"
AlreadyExists(data, tenant_id) == tenant_id \in DOMAIN data

\* add_user's and authenticate_user's "tenant_id not in data", negated
TenantExists(data, tenant_id) == tenant_id \in DOMAIN data

\* faulty variant: the tenant is stored without its initial admin
NewTenant_no_admin(prof, admin_username, admin_password, salt, clock) ==
    [name |-> prof.name,
     users |-> EmptyDict,
     mlflow_uri |-> prof.mlflow_uri,
     artifact_root |-> prof.artifact_root,
     created_at |-> clock]

\* the record of lines 124-136
NewTenant(prof, admin_username, admin_password, salt, clock) ==
    [name |-> prof.name,
     users |-> DictSet(EmptyDict, admin_username,
                  [hashed_password |-> hash_password(admin_password, salt),
                   role |-> "admin",
                   created_at |-> clock]),
     mlflow_uri |-> prof.mlflow_uri,
     artifact_root |-> prof.artifact_root,
     created_at |-> clock]

\* faulty variant: an existing tenant is overwritten, and False returned
create_tenant_overwrite(data, tenant_id, prof, admin_username, admin_password, salt, clock) ==
    [ok |-> ~(tenant_id \in DOMAIN data), write |-> TRUE,
     data |-> DictSet(data, tenant_id,
                 NewTenant(prof, admin_username, admin_password, salt, clock))]

\* what create_tenant returns (ok), whether it reaches save_tenant_users
\* (write), and the document it saves (data)
create_tenant(data, tenant_id, prof, admin_username, admin_password, salt, clock) ==
    IF AlreadyExists(data, tenant_id)
    THEN [ok |-> FALSE, write |-> FALSE, data |-> data]
    ELSE [ok |-> TRUE, write |-> TRUE,
          data |-> DictSet(data, tenant_id,
                      NewTenant(prof, admin_username, admin_password, salt, clock))]

(***************************************************************************)
(* add_user                                                                *)
(***************************************************************************)
\* faulty variant: the users of every tenant, merged
TenantUsers_global(data, tenant_id) ==
    [u \in UNION { DOMAIN data[t].users : t \in DOMAIN data } |->
        LET t == CHOOSE t \in DOMAIN data : u \in DOMAIN data[t].users
        IN  data[t].users[u]]

\* data[tenant_id]["users"]
TenantUsers(data, tenant_id) == data[tenant_id].users

\* faulty variant: the uniqueness test never fires
UsernameExists_never(data, tenant_id, username) == FALSE

\* username in data[tenant_id]["users"]
UsernameExists(data, tenant_id, username) ==
    username \in DOMAIN TenantUsers(data, tenant_id)

\* faulty variant: every role string is accepted
ValidRole_any(role) == TRUE

\* role in ["admin", "viewer"]
ValidRole(role) == role \in {"admin", "viewer"}

NewUser(password, role, salt, clock) ==
    [hashed_password |-> hash_password(password, salt),
     role |-> role,
     created_at |-> clock]

\* faulty variant: adding a user stamps the tenant record again
add_user_restamps(data, tenant_id, username, password, role, salt, clock) ==
    IF ~TenantExists(data, tenant_id)
    THEN [ok |-> FALSE, message |-> "Tenant not found",
          write |-> FALSE, data |-> data]
    ELSE IF UsernameExists(data, tenant_id, username)
    THEN [ok |-> FALSE, message |-> "Username already exists",
          write |-> FALSE, data |-> data]
    ELSE IF ~ValidRole(role)
    THEN [ok |-> FALSE, message |-> "Invalid role",
          write |-> FALSE, data |-> data]
    ELSE [ok |-> TRUE, message |-> "User added successfully",
          write |-> TRUE,
          data |-> [data EXCEPT ![tenant_id].users =
                      DictSet(@, username, NewUser(password, role, salt, clock)),
                                ![tenant_id].created_at = clock]]

add_user(data, tenant_id, username, password, role, salt, clock) ==
    IF ~TenantExists(data, tenant_id)
    THEN [ok |-> FALSE, message |-> "Tenant not found",
          write |-> FALSE, data |-> data]
    ELSE IF UsernameExists(data, tenant_id, username)
    THEN [ok |-> FALSE, message |-> "Username already exists",
          write |-> FALSE, data |-> data]
    ELSE IF ~ValidRole(role)
    THEN [ok |-> FALSE, message |-> "Invalid role",
          write |-> FALSE, data |-> data]
    ELSE [ok |-> TRUE, message |-> "User added successfully",
          write |-> TRUE,
          data |-> [data EXCEPT ![tenant_id].users =
                      DictSet(@, username, NewUser(password, role, salt, clock))]]

(***************************************************************************)
(* authenticate_user                                                       *)
(***************************************************************************)
\* faulty variant: any password is accepted
PasswordMatches_any(password, user_data) == TRUE

\* verify_password(password, user_data["hashed_password"])
PasswordMatches(password, user_data) ==
    verify_password(password, user_data.hashed_password)

authenticate_user(data, tenant_id, username, password) ==
    IF ~TenantExists(data, tenant_id)
    THEN [ok |-> FALSE, message |-> "Tenant not found", role |-> None]
    ELSE IF username \notin DOMAIN TenantUsers(data, tenant_id)
    THEN [ok |-> FALSE, message |-> "User not found", role |-> None]
    ELSE LET user_data == TenantUsers(data, tenant_id)[username]
         IN  IF PasswordMatches(password, user_data)
             THEN [ok |-> TRUE, message |-> "Authentication successful",
                   role |-> user_data.role]
             ELSE [ok |-> FALSE, message |-> "Invalid password", role |-> None]

(***************************************************************************)
(* The calls as steps: load, decide, save, return                          *)
(***************************************************************************)
NoCall == [op |-> "none", tenant_id |-> None, username |-> None,
           password |-> None, role |-> None,
           ok |-> FALSE, message |-> None, out_role |-> None]

CallCreateTenant(tenant_id, prof, admin_username, admin_password) ==
    \E r \in { create_tenant(load_tenant_users, tenant_id, prof,
                             admin_username, admin_password, gensalt, now) } :
        /\ r.write => now < MaxWrites
        /\ IF r.write THEN save_tenant_users(r.data) ELSE UNCHANGED storeVars
        /\ ret' = [op |-> "create_tenant", tenant_id |-> tenant_id,
                   username |-> admin_username, password |-> admin_password,
                   role |-> "admin", ok |-> r.ok,
                   message |-> None, out_role |-> None]
        /\ created_ok' = IF r.ok THEN [created_ok EXCEPT ![tenant_id] = @ + 1]
                         ELSE created_ok
        /\ plaintext' = IF r.ok
                        THEN DictSet(plaintext, <<tenant_id, admin_username>>,
                                     admin_password)
                        ELSE plaintext

CallAddUser(tenant_id, username, password, role) ==
    \E r \in { add_user(load_tenant_users, tenant_id, username, password,
                        role, gensalt, now) } :
        /\ r.write => now < MaxWrites
        /\ IF r.write THEN save_tenant_users(r.data) ELSE UNCHANGED storeVars
        /\ ret' = [op |-> "add_user", tenant_id |-> tenant_id,
                   username |-> username, password |-> password,
                   role |-> role, ok |-> r.ok,
                   message |-> r.message, out_role |-> None]
        /\ plaintext' = IF r.ok
                        THEN DictSet(plaintext, <<tenant_id, username>>, password)
                        ELSE plaintext
        /\ UNCHANGED created_ok

CallAuthenticateUser(tenant_id, username, password) ==
    \E r \in { authenticate_user(load_tenant_users, tenant_id, username,
                                 password) } :
        /\ ret' = [op |-> "authenticate_user", tenant_id |-> tenant_id,
                   username |-> username, password |-> password,
                   role |-> None, ok |-> r.ok,
                   message |-> r.message, out_role |-> r.role]
        /\ UNCHANGED <<storeVars, histVars>>

(***************************************************************************)
(* Spec: sequential calls of the core                                      *)
(***************************************************************************)
InitStore ==
    /\ primary = AbsentFile
    /\ backup = AbsentFile
    /\ now = 0
    /\ ret = NoCall
    /\ created_ok = [t \in TenantIds |-> 0]
    /\ plaintext = EmptyDict

InitSession ==
    /\ authenticated_user = None
    /\ user_role = None
    /\ current_tenant = None
    /\ show_user_management = FALSE

Idle == [pc |-> "idle"]

InitProcs ==
    /\ proc = [p \in Procs |-> Idle]
    /\ lockP = [p \in Procs |-> "none"]
    /\ lockB = [p \in Procs |-> "none"]

\* the two server processes, each with its own mlflow module
Hosts == {"gateway", "frontend"}

\* the registry entry of lines 38-43
GatewayTenant(tenant_id, tenant_name, clock) ==
    [name |-> tenant_name,
     created_at |-> clock,
     mlflow_uri |-> "postgresql://mlflow?search_path=" \o tenant_id,
     artifact_root |-> "/mlflow/tenants_data/" \o tenant_id \o "/artifacts"]

\* TenantManager.load_tenants of a tenants.json that holds two tenants
ProvisionedTenants ==
    [t \in TenantIds |-> GatewayTenant(t, t, 0)]

\* TenantManager() at import, and mlflow before any set_tracking_uri
InitGateway ==
    /\ tenants = ProvisionedTenants
    /\ tracking_uri = [h \in Hosts |-> None]

Init == InitStore /\ InitSession /\ InitProcs /\ InitGateway

CreateTenant ==
    \E t \in TenantIds, prof \in TenantProfiles, u \in Usernames,
       p \in Passwords :
        /\ CallCreateTenant(t, prof, u, p)
        /\ UNCHANGED <<sessionVars, concVars, scopeVars>>

AddUser ==
    \E t \in TenantIds, u \in Usernames, p \in Passwords, r \in RoleArgs :
        /\ CallAddUser(t, u, p, r)
        /\ UNCHANGED <<sessionVars, concVars, scopeVars>>

AuthenticateUser ==
    \E t \in TenantIds, u \in Usernames, p \in Passwords :
        /\ CallAuthenticateUser(t, u, p)
        /\ UNCHANGED <<sessionVars, concVars, scopeVars>>

Next == CreateTenant \/ AddUser \/ AuthenticateUser

Spec == Init /\ [][Next]_vars

\* the persisted document, as the next call will load it
Doc == load_tenant_users

\* the password a stored user's digest was produced from
PlainOf(tenant_id, username) == plaintext[<<tenant_id, username>>]

(***************************************************************************)
(* Properties of the sequential core (Spec)                                *)
(***************************************************************************)

\* C1: over any sequential run of create_tenant, add_user and
\* authenticate_user calls, at most one create_tenant call returns True for
\* a tenant_id; a create_tenant call that returns False found the tenant_id
\* in the document, put there by the one call that returned True.
C1_AtMostOneCreateSucceeds ==
    /\ \A t \in TenantIds : created_ok[t] <= 1
    /\ (ret.op = "create_tenant" /\ ~ret.ok) =>
          /\ ret.tenant_id \in DOMAIN Doc
          /\ created_ok[ret.tenant_id] = 1

\* a create_tenant call was refused after an earlier one had succeeded
C1_Witness ==
    /\ ret.op = "create_tenant"
    /\ ~ret.ok
    /\ created_ok[ret.tenant_id] = 1

\* the document with every tenant but tenant_id removed
OnlyTenant(data, tenant_id) ==
    [t \in DOMAIN data \cap {tenant_id} |-> data[t]]

\* C6: authenticate_user(B, u, p) succeeds only if B's own users hold u and
\* p is the password u's digest in B was produced from; the outcome is the
\* same when every other tenant's record is removed from the document.
C6_TenantIsolation ==
    \A t \in TenantIds, u \in Usernames, p \in Passwords :
        /\ authenticate_user(Doc, t, u, p).ok =>
              /\ t \in DOMAIN Doc
              /\ u \in DOMAIN Doc[t].users
              /\ <<t, u>> \in DOMAIN plaintext
              /\ PlainOf(t, u) = p
        /\ authenticate_user(Doc, t, u, p)
              = authenticate_user(OnlyTenant(Doc, t), t, u, p)
        /\ (ret.op = "authenticate_user" /\ ret.ok) =>
              /\ ret.tenant_id \in DOMAIN Doc
              /\ ret.username \in DOMAIN Doc[ret.tenant_id].users
              /\ PlainOf(ret.tenant_id, ret.username) = ret.password

\* a login against tenant B was refused although another tenant holds the
\* same username with exactly the password given
C6_Witness ==
    /\ ret.op = "authenticate_user"
    /\ ~ret.ok
    /\ \E a \in DOMAIN Doc \ {ret.tenant_id} :
          /\ ret.username \in DOMAIN Doc[a].users
          /\ PlainOf(a, ret.username) = ret.password
    /\ ret.tenant_id \in DOMAIN Doc

\* the outcome the claim gives for authenticate_user(t, u, p)
ExpectedAuth(t, u, p) ==
    IF t \notin DOMAIN Doc
    THEN [ok |-> FALSE, message |-> "Tenant not found", role |-> None]
    ELSE IF u \notin DOMAIN Doc[t].users
    THEN [ok |-> FALSE, message |-> "User not found", role |-> None]
    ELSE IF PlainOf(t, u) # p
    THEN [ok |-> FALSE, message |-> "Invalid password", role |-> None]
    ELSE [ok |-> TRUE, message |-> "Authentication successful",
          role |-> Doc[t].users[u].role]

\* C7: on every persisted document and for every input, authenticate_user
\* returns Tenant not found / User not found / Invalid password / success
\* with the stored role, by the four cases of the claim; the last
\* authenticate_user call made returned exactly that.
C7_AuthenticateOutcome ==
    /\ \A t \in TenantIds, u \in Usernames, p \in Passwords :
          authenticate_user(Doc, t, u, p) = ExpectedAuth(t, u, p)
    /\ ret.op = "authenticate_user" =>
          [ok |-> ret.ok, message |-> ret.message, role |-> ret.out_role]
            = ExpectedAuth(ret.tenant_id, ret.username, ret.password)

\* a viewer added by add_user has logged in and got the role viewer
C7_Witness ==
    /\ ret.op = "authenticate_user"
    /\ ret.ok
    /\ ret.out_role = "viewer"

\* C8: in every persisted document every tenant has at least one user, one
\* of them an admin stored with the tenant's own creation time (the initial
\* admin); right after a create_tenant that returned True the new tenant's
\* users are exactly the supplied admin username, with role admin.
C8_TenantHasInitialAdmin ==
    /\ \A t \in DOMAIN Doc :
          /\ DOMAIN Doc[t].users # {}
          /\ \E u \in DOMAIN Doc[t].users :
                /\ Doc[t].users[u].role = "admin"
                /\ Doc[t].users[u].created_at = Doc[t].created_at
    /\ (ret.op = "create_tenant" /\ ret.ok) =>
          /\ ret.tenant_id \in DOMAIN Doc
          /\ DOMAIN Doc[ret.tenant_id].users = {ret.username}
          /\ Doc[ret.tenant_id].users[ret.username].role = "admin"
          /\ verify_password(ret.password,
                Doc[ret.tenant_id].users[ret.username].hashed_password)

\* a second tenant has just been created beside an existing one
C8_Witness ==
    /\ ret.op = "create_tenant"
    /\ ret.ok
    /\ Cardinality(DOMAIN Doc) = 2
    /\ DOMAIN Doc[ret.tenant_id].users = {ret.username}

\* C9: a create_tenant call whose tenant_id is in the persisted document
\* returns False and writes nothing: primary, backup and clock are those
\* of before the call.
C9_CreateExistingWritesNothing ==
    [][ (ret'.op = "create_tenant" /\ ret'.tenant_id \in DOMAIN Doc) =>
          /\ ~ret'.ok
          /\ primary' = primary
          /\ backup' = backup
          /\ now' = now
          /\ Doc' = Doc ]_vars

\* a create_tenant for an existing tenant_id, with another admin password
\* than the stored one, was refused
C9_Witness ==
    /\ ret.op = "create_tenant"
    /\ ~ret.ok
    /\ ret.tenant_id \in DOMAIN Doc
    /\ <<ret.tenant_id, ret.username>> \in DOMAIN plaintext
    /\ PlainOf(ret.tenant_id, ret.username) # ret.password

\* C10: an add_user call whose username is already in the target tenant
\* returns (False, "Username already exists") and writes nothing; afterwards
\* the user's original password authenticates and, when it differs, the
\* password of the refused call does not.
C10_AddExistingUserWritesNothing ==
    [][ (/\ ret'.op = "add_user"
         /\ ret'.tenant_id \in DOMAIN Doc
         /\ ret'.username \in DOMAIN Doc[ret'.tenant_id].users) =>
          /\ ~ret'.ok
          /\ ret'.message = "Username already exists"
          /\ primary' = primary
          /\ backup' = backup
          /\ Doc' = Doc
          /\ authenticate_user(Doc', ret'.tenant_id, ret'.username,
                PlainOf(ret'.tenant_id, ret'.username)).ok
          /\ ret'.password # PlainOf(ret'.tenant_id, ret'.username) =>
                ~authenticate_user(Doc', ret'.tenant_id, ret'.username,
                                   ret'.password).ok ]_vars

\* an add_user for an existing username, with another password than the
\* stored one, was refused
C10_Witness ==
    /\ ret.op = "add_user"
    /\ ~ret.ok
    /\ ret.message = "Username already exists"
    /\ PlainOf(ret.tenant_id, ret.username) # ret.password

\* the roles a persisted user may carry
StoredRolesValid(data) ==
    \A t \in DOMAIN data : \A u \in DOMAIN data[t].users :
        data[t].users[u].role \in {"admin", "viewer"}

\* C11: every document persisted by a create_tenant or add_user call gives
\* every stored user the role admin or viewer; an add_user call with any
\* other role returns failure and leaves primary, backup and clock as they
\* were.
C11_StoredRolesClosed ==
    [][ /\ StoredRolesValid(Doc')
        /\ (ret'.op = "add_user" /\ ret'.role \notin {"admin", "viewer"}) =>
              /\ ~ret'.ok
              /\ primary' = primary
              /\ backup' = backup
              /\ now' = now
              /\ Doc' = Doc ]_vars

\* add_user with the role guest, for a new username of an existing tenant,
\* was refused as an invalid role
C11_Witness ==
    /\ ret.op = "add_user"
    /\ ret.role = "guest"
    /\ ~ret.ok
    /\ ret.message = "Invalid role"
    /\ ret.tenant_id \in DOMAIN Doc
    /\ ret.username \notin DOMAIN Doc[ret.tenant_id].users

\* C23: an add_user call whose role is neither admin nor viewer returns
\* (False, "Invalid role"), whatever its tenant_id and username are.
C23_RoleValidatedFirst ==
    (ret.op = "add_user" /\ ret.role \notin {"admin", "viewer"}) =>
        /\ ~ret.ok
        /\ ret.message = "Invalid role"

(***************************************************************************)
(* SpecUI: one browser session of app.py.  Every step is one script run    *)
(* of main() started by a widget of the page the previous run rendered.    *)
(***************************************************************************)
\* what st.text_input can hold
TenantIdInputs == TenantIds \cup {""}
UsernameInputs == Usernames \cup {""}
PasswordInputs == Passwords \cup {""}
\* the form's name field, filled in or left empty, with the default
\* MLflow URI and artifact root
ProfileInputs ==
    { [name |-> "Acme", mlflow_uri |-> "uri_a", artifact_root |-> "/art/a"],
      [name |-> "",     mlflow_uri |-> "uri_a", artifact_root |-> "/art/a"] }

\* get_tenant_info(tenant_id): data.get(tenant_id)
get_tenant_info(data, tenant_id) ==
    IF tenant_id \in DOMAIN data THEN data[tenant_id] ELSE None

\* get_tenant_users(tenant_id): data.get(tenant_id, {}).get("users", {})
get_tenant_users(data, tenant_id) ==
    IF tenant_id \in DOMAIN data THEN data[tenant_id].users ELSE EmptyDict

\* display_dashboard's "if not tenant_info", negated: a tenant record is a
\* non-empty dict, so it is found exactly when the key is there
TenantInfoFound(data, tenant_id) == tenant_id \in DOMAIN data

\* the page main() renders from the session state and the document:
\* the login form, the dashboard, or the dashboard with the user-management
\* form (display_user_management) in place of the experiments
Page ==
    IF authenticated_user = None THEN "login"
    ELSE IF current_tenant = None THEN "invalid"
    ELSE IF ~TenantInfoFound(Doc, current_tenant) THEN "not_found"
    ELSE IF show_user_management THEN "user_management"
    ELSE "dashboard"

DashboardShown == Page \in {"dashboard", "user_management"}

InvalidInput == [NoCall EXCEPT !.op = "invalid_input"]

\* faulty variant: only authenticated_user is assigned
SessionAfterLogin_partial(username, role, tenant_id) ==
    [authenticated_user |-> username, user_role |-> None,
     current_tenant |-> None]

\* the three assignments of lines 118-120
SessionAfterLogin(username, role, tenant_id) ==
    [authenticated_user |-> username, user_role |-> role,
     current_tenant |-> tenant_id]

\* the three assignments of lines 259-261
SessionAfterLogout ==
    [authenticated_user |-> None, user_role |-> None, current_tenant |-> None]

\* st.session_state after the assignments
SetSession(session) ==
    /\ authenticated_user' = session.authenticated_user
    /\ user_role' = session.user_role
    /\ current_tenant' = session.current_tenant

\* the Login button (lines 104-129): shown once tenant id and username are
\* non-empty
UILogin ==
    \E t \in TenantIds, u \in Usernames, p \in PasswordInputs :
        /\ Page = "login"
        /\ CallAuthenticateUser(t, u, p)
        /\ IF ret'.ok
           THEN SetSession(SessionAfterLogin(u, ret'.out_role, t))
           ELSE UNCHANGED <<authenticated_user, user_role, current_tenant>>
        /\ UNCHANGED <<show_user_management, concVars, scopeVars>>

\* the checks of lines 146-151 that end the submission with st.error
SignupRejected(tenant_id, prof, admin_password, confirm_password) ==
    \/ tenant_id = "" \/ prof.name = ""
    \/ admin_password = "" \/ confirm_password = ""
    \/ admin_password # confirm_password

\* the Create Tenant form of the Sign Up tab (lines 145-165)
UISignup ==
    /\ Page = "login"
    /\ \/ IF \E t \in TenantIdInputs, prof \in ProfileInputs,
                  p \in PasswordInputs, confirm \in PasswordInputs :
                    SignupRejected(t, prof, p, confirm)
          THEN /\ ret' = InvalidInput
               /\ UNCHANGED <<storeVars, histVars>>
          ELSE FALSE
       \/ \E t \in TenantIdInputs, prof \in ProfileInputs,
             u \in UsernameInputs, p \in PasswordInputs,
             confirm \in PasswordInputs :
              /\ ~SignupRejected(t, prof, p, confirm)
              /\ CallCreateTenant(t, prof, u, p)
    /\ UNCHANGED <<sessionVars, concVars, scopeVars>>

\* the Logout button (lines 257-262)
UILogout ==
    /\ DashboardShown
    /\ SetSession(SessionAfterLogout)
    /\ UNCHANGED <<show_user_management, storeVars, ret, histVars, concVars, scopeVars>>

\* the Manage Users button (lines 264-267), rendered for an admin only
UIManageUsers ==
    /\ DashboardShown
    /\ user_role = "admin"
    /\ show_user_management' = TRUE
    /\ UNCHANGED <<authenticated_user, user_role, current_tenant,
                   storeVars, ret, histVars, concVars, scopeVars>>

\* the Back to Dashboard button (lines 272-276)
UIBackToDashboard ==
    /\ Page = "user_management"
    /\ show_user_management' = FALSE
    /\ UNCHANGED <<authenticated_user, user_role, current_tenant,
                   storeVars, ret, histVars, concVars, scopeVars>>

\* the Add User form of display_user_management (lines 207-225)
UIAddUser ==
    \E u \in UsernameInputs, p \in PasswordInputs, r \in {"admin", "viewer"} :
        /\ Page = "user_management"
        /\ CallAddUser(current_tenant, u, p, r)
        /\ UNCHANGED <<sessionVars, concVars, scopeVars>>

NextUI ==
    \/ UILogin
    \/ UISignup
    \/ UILogout
    \/ UIManageUsers
    \/ UIBackToDashboard
    \/ UIAddUser

SpecUI == Init /\ [][NextUI]_vars

\* C3: a session whose user_role is viewer is never shown the
\* user-management form, and add_user is never the call made by a session
\* whose user_role is viewer.
C3_ViewerNeverManagesUsers ==
    user_role = "viewer" =>
        /\ Page # "user_management"
        /\ ret.op # "add_user"

\* the two session states of the claim
SessionUnauthenticated ==
    authenticated_user = None /\ user_role = None /\ current_tenant = None

SessionAuthenticated ==
    authenticated_user # None /\ user_role # None /\ current_tenant # None

\* C13: the three session fields are all None or all set in every state;
\* a session that becomes authenticated does so in a step whose call is an
\* authenticate_user that returned success, with the fields equal to that
\* call's username, returned role and tenant_id; a step that changes a field
\* of an authenticated session (logout) leaves all three None.
C13_SessionAllOrNone ==
    /\ SessionUnauthenticated
    /\ [][ /\ SessionUnauthenticated' \/ SessionAuthenticated'
           /\ (~SessionAuthenticated /\ SessionAuthenticated') =>
                 /\ ret'.op = "authenticate_user"
                 /\ ret'.ok
                 /\ authenticated_user' = ret'.username
                 /\ user_role' = ret'.out_role
                 /\ current_tenant' = ret'.tenant_id
                 /\ authenticate_user(Doc, ret'.tenant_id, ret'.username,
                                      ret'.password).ok
           /\ (/\ SessionAuthenticated
               /\ <<authenticated_user, user_role, current_tenant>>'
                     # <<authenticated_user, user_role, current_tenant>>) =>
                 SessionUnauthenticated'
           /\ UILogout => SessionUnauthenticated' ]_vars

\* a viewer is logged in: the admin who added the viewer has logged out and
\* the viewer's authenticate_user call has succeeded
C13_Witness ==
    /\ SessionAuthenticated
    /\ user_role = "viewer"
    /\ ret.op = "authenticate_user"
    /\ ret.ok
    /\ authenticated_user = ret.username

\* what display_user_management gets from get_tenant_users(current_tenant)
\* (line 229) every time it renders
UserListing ==
    IF Page = "user_management"
    THEN get_tenant_users(Doc, current_tenant)
    ELSE EmptyDict

\* C12: the listing get_tenant_users returns maps each username to its role
\* and created_at only; no entry of it carries the user's hashed_password.
C12_ListingHidesDigest ==
    \A u \in DOMAIN UserListing :
        /\ DOMAIN UserListing[u] = {"role", "created_at"}
        /\ "hashed_password" \notin DOMAIN UserListing[u]

\* C20: a signup or add-user submission with an empty tenant id, tenant
\* name, username or password is rejected before create_tenant or add_user
\* is called, so no persisted tenant has an empty id or name and no
\* persisted user an empty username or password.
C20_EmptyFieldsRejected ==
    /\ ret.op \in {"create_tenant", "add_user"} =>
          /\ ret.tenant_id # ""
          /\ ret.username # ""
          /\ ret.password # ""
    /\ \A t \in DOMAIN Doc :
          /\ t # ""
          /\ Doc[t].name # ""
          /\ \A u \in DOMAIN Doc[t].users :
                /\ u # ""
                /\ PlainOf(t, u) # ""

(***************************************************************************)
(* SpecConc: concurrent callers.  Each caller makes one call               *)
(* (create_tenant, add_user, or a bare load_tenant_users as                *)
(* authenticate_user / get_tenant_info make it); every open, flock, read,  *)
(* unlock and close of safe_read_json and safe_write_json is a step of its *)
(* own, so that the calls interleave as processes on one host do.          *)
(*                                                                         *)
(* open(path, 'w') truncates at once, before any flock.  What json.dump    *)
(* and dst.write put into the file object stays in its buffer (the         *)
(* documents here are far below the 8 KiB buffer) and reaches the file     *)
(* when the with block closes it, which is after the flock(LOCK_UN) of the *)
(* finally clause.                                                         *)
(***************************************************************************)
\* the arguments the concurrent callers do not vary
ConcPassword == "pw123!"
ConcRole == "viewer"
ConcProfile ==
    [name |-> "Acme", mlflow_uri |-> "uri_a", artifact_root |-> "/art/a"]

\* the document after one sequential create_tenant("acme", ..., "admin", ...)
SeedDoc ==
    create_tenant(EmptyDict, "acme", ConcProfile, "admin", ConcPassword, 0, 0).data

InitConc ==
    /\ \/ /\ primary = AbsentFile
          /\ now = 0
          /\ created_ok = [t \in TenantIds |-> 0]
          /\ plaintext = EmptyDict
       \/ /\ primary = JsonFile(SeedDoc)
          /\ now = 1
          /\ created_ok = [t \in TenantIds |-> IF t = "acme" THEN 1 ELSE 0]
          /\ plaintext = DictSet(EmptyDict, <<"acme", "admin">>, ConcPassword)
    /\ backup = AbsentFile
    /\ ret = NoCall
    /\ InitSession
    /\ InitProcs
    /\ InitGateway

Caller(op, tenant_id, username) ==
    [pc |-> "r_open", op |-> op, tenant_id |-> tenant_id,
     username |-> username, data |-> EmptyDict, buf |-> EmptyFile,
     result |-> None]

\* flock(fd, LOCK_SH) returns: no other open file holds the exclusive lock
CanLockShared(lock, p) == \A q \in Procs \ {p} : lock[q] # "ex"

\* faulty variant: flock(fd, LOCK_EX) never returns
CanLockExclusive_never(lock, p) == FALSE

\* flock(fd, LOCK_EX) returns: no other open file holds any lock
CanLockExclusive(lock, p) == \A q \in Procs \ {p} : lock[q] = "none"

\* the file after a buffer is flushed at offset 0 of it: the buffer's bytes
\* replace the head of what the file holds.  Over a file another writer has
\* filled meanwhile the result is the buffer's text when that is at least
\* as long, and the buffer's text followed by the other's tail (which does
\* not parse) when it is shorter
Flushed(file, buf) ==
    IF buf.kind = "empty" THEN {file}
    ELSE IF file.kind = "empty" \/ file = buf THEN {buf}
    ELSE {buf, GarbageFile}

StartCall(p) ==
    /\ proc[p].pc = "idle"
    /\ \E op \in {"create_tenant", "add_user"}, t \in TenantIds,
          u \in Usernames :
          proc' = [proc EXCEPT ![p] = Caller(op, t, u)]
    /\ UNCHANGED <<storeVars, ret, histVars, sessionVars, scopeVars, lockP, lockB>>

StartLoad(p) ==
    /\ proc[p].pc = "idle"
    /\ proc' = [proc EXCEPT ![p] = Caller("load_tenant_users", None, None)]
    /\ UNCHANGED <<storeVars, ret, histVars, sessionVars, scopeVars, lockP, lockB>>

\* safe_read_json lines 22-26: exists, open
ReadOpen(p) ==
    /\ proc[p].pc = "r_open"
    /\ proc' = [proc EXCEPT ![p].pc =
                    IF PathExists(primary) THEN "r_lock" ELSE "decide"]
    /\ UNCHANGED <<storeVars, ret, histVars, sessionVars, scopeVars, lockP, lockB>>

\* line 28
ReadLock(p) ==
    /\ proc[p].pc = "r_lock"
    /\ CanLockShared(lockP, p)
    /\ lockP' = [lockP EXCEPT ![p] = "sh"]
    /\ proc' = [proc EXCEPT ![p].pc = "r_load"]
    /\ UNCHANGED <<storeVars, ret, histVars, sessionVars, scopeVars, lockB>>

\* lines 30-39: json.load, and on JSONDecodeError the way to the backup
ReadLoad(p) ==
    /\ proc[p].pc = "r_load"
    /\ proc' = [proc EXCEPT ![p] =
          IF Parses(primary)
          THEN [@ EXCEPT !.data = JsonLoad(primary.text), !.pc = "r_unlock"]
          ELSE IF PathExists(backup)
          THEN [@ EXCEPT !.pc = "rb_lock"]
          ELSE [@ EXCEPT !.data = EmptyDict, !.pc = "r_unlock"]]
    /\ UNCHANGED <<storeVars, ret, histVars, sessionVars, scopeVars, lockP, lockB>>

\* safe_read_json(BACKUP_FILE), line 28
ReadBackupLock(p) ==
    /\ proc[p].pc = "rb_lock"
    /\ CanLockShared(lockB, p)
    /\ lockB' = [lockB EXCEPT ![p] = "sh"]
    /\ proc' = [proc EXCEPT ![p].pc = "rb_load"]
    /\ UNCHANGED <<storeVars, ret, histVars, sessionVars, scopeVars, lockP>>

\* safe_read_json(BACKUP_FILE), lines 30-45
ReadBackupLoad(p) ==
    /\ proc[p].pc = "rb_load"
    /\ proc' = [proc EXCEPT ![p].data = safe_read_backup(backup),
                            ![p].pc = "rb_unlock"]
    /\ UNCHANGED <<storeVars, ret, histVars, sessionVars, scopeVars, lockP, lockB>>

\* safe_read_json(BACKUP_FILE), line 41
ReadBackupUnlock(p) ==
    /\ proc[p].pc = "rb_unlock"
    /\ lockB' = [lockB EXCEPT ![p] = "none"]
    /\ proc' = [proc EXCEPT ![p].pc = "r_unlock"]
    /\ UNCHANGED <<storeVars, ret, histVars, sessionVars, scopeVars, lockP>>

\* line 41
ReadUnlock(p) ==
    /\ proc[p].pc = "r_unlock"
    /\ lockP' = [lockP EXCEPT ![p] = "none"]
    /\ proc' = [proc EXCEPT ![p].pc = "decide"]
    /\ UNCHANGED <<storeVars, ret, histVars, sessionVars, scopeVars, lockB>>

\* what the call does with the document it loaded
Decision(c) ==
    IF c.op = "create_tenant"
    THEN create_tenant(c.data, c.tenant_id, ConcProfile, c.username,
                       ConcPassword, gensalt, now)
    ELSE IF c.op = "add_user"
    THEN add_user(c.data, c.tenant_id, c.username, ConcPassword, ConcRole,
                  gensalt, now)
    ELSE [ok |-> TRUE, write |-> FALSE, data |-> c.data]

\* create_tenant lines 117-136, add_user lines 152-169: the checks and the
\* change of the in-memory document
Decide(p) ==
    /\ proc[p].pc = "decide"
    /\ \E r \in { Decision(proc[p]) } :
          proc' = [proc EXCEPT ![p] =
              IF r.write
              THEN [@ EXCEPT !.data = r.data, !.pc = "w_bk_open"]
              ELSE [@ EXCEPT !.result = r.ok, !.pc = "done"]]
    /\ UNCHANGED <<storeVars, ret, histVars, sessionVars, scopeVars, lockP, lockB>>

\* safe_write_json lines 51-52: exists, open(file_path, 'r'),
\* open(BACKUP_FILE, 'w')
BackupOpen(p) ==
    /\ proc[p].pc = "w_bk_open"
    /\ IF PathExists(primary)
       THEN /\ backup' = EmptyFile
            /\ proc' = [proc EXCEPT ![p].pc = "w_bk_lock_src"]
       ELSE /\ backup' = backup
            /\ proc' = [proc EXCEPT ![p].pc = "w_open"]
    /\ UNCHANGED <<primary, now, ret, histVars, sessionVars, scopeVars, lockP, lockB>>

\* line 53
BackupLockSrc(p) ==
    /\ proc[p].pc = "w_bk_lock_src"
    /\ CanLockShared(lockP, p)
    /\ lockP' = [lockP EXCEPT ![p] = "sh"]
    /\ proc' = [proc EXCEPT ![p].pc = "w_bk_lock_dst"]
    /\ UNCHANGED <<storeVars, ret, histVars, sessionVars, scopeVars, lockB>>

\* line 54
BackupLockDst(p) ==
    /\ proc[p].pc = "w_bk_lock_dst"
    /\ CanLockExclusive(lockB, p)
    /\ lockB' = [lockB EXCEPT ![p] = "ex"]
    /\ proc' = [proc EXCEPT ![p].pc = "w_bk_copy"]
    /\ UNCHANGED <<storeVars, ret, histVars, sessionVars, scopeVars, lockP>>

\* line 56: dst.write(src.read())
BackupCopy(p) ==
    /\ proc[p].pc = "w_bk_copy"
    /\ proc' = [proc EXCEPT ![p].buf = primary, ![p].pc = "w_bk_unlock"]
    /\ UNCHANGED <<storeVars, ret, histVars, sessionVars, scopeVars, lockP, lockB>>

\* lines 58-59
BackupUnlock(p) ==
    /\ proc[p].pc = "w_bk_unlock"
    /\ lockP' = [lockP EXCEPT ![p] = "none"]
    /\ lockB' = [lockB EXCEPT ![p] = "none"]
    /\ proc' = [proc EXCEPT ![p].pc = "w_bk_close"]
    /\ UNCHANGED <<storeVars, ret, histVars, sessionVars, scopeVars>>

\* the end of the with block of line 52: dst is closed and flushed
BackupClose(p) ==
    /\ proc[p].pc = "w_bk_close"
    /\ backup' \in Flushed(backup, proc[p].buf)
    /\ proc' = [proc EXCEPT ![p].pc = "w_open"]
    /\ UNCHANGED <<primary, now, ret, histVars, sessionVars, scopeVars, lockP, lockB>>

\* lines 62-63: open(file_path, 'w')
WriteOpen(p) ==
    /\ proc[p].pc = "w_open"
    /\ primary' = EmptyFile
    /\ proc' = [proc EXCEPT ![p].pc = "w_lock"]
    /\ UNCHANGED <<backup, now, ret, histVars, sessionVars, scopeVars, lockP, lockB>>

\* lines 64-66: flock(LOCK_EX), json.dump into the file object
WriteLock(p) ==
    /\ proc[p].pc = "w_lock"
    /\ CanLockExclusive(lockP, p)
    /\ lockP' = [lockP EXCEPT ![p] = "ex"]
    /\ proc' = [proc EXCEPT ![p].buf = JsonFile(proc[p].data),
                            ![p].pc = "w_unlock"]
    /\ UNCHANGED <<storeVars, ret, histVars, sessionVars, scopeVars, lockB>>

\* line 69
WriteUnlock(p) ==
    /\ proc[p].pc = "w_unlock"
    /\ lockP' = [lockP EXCEPT ![p] = "none"]
    /\ proc' = [proc EXCEPT ![p].pc = "w_close"]
    /\ UNCHANGED <<storeVars, ret, histVars, sessionVars, scopeVars, lockB>>

\* the end of the with block of line 63: f is closed and flushed; the call
\* returns True (lines 138-140, 171-173)
WriteClose(p) ==
    /\ proc[p].pc = "w_close"
    /\ primary' \in Flushed(primary, proc[p].buf)
    /\ now' = now + 1
    /\ proc' = [proc EXCEPT ![p].result = TRUE, ![p].pc = "done"]
    /\ UNCHANGED <<backup, ret, histVars, sessionVars, scopeVars, lockP, lockB>>

NextConc ==
    \E p \in Procs :
        \/ StartCall(p)
        \/ StartLoad(p)
        \/ ReadOpen(p)
        \/ ReadLock(p)
        \/ ReadLoad(p)
        \/ ReadBackupLock(p)
        \/ ReadBackupLoad(p)
        \/ ReadBackupUnlock(p)
        \/ ReadUnlock(p)
        \/ Decide(p)
        \/ BackupOpen(p)
        \/ BackupLockSrc(p)
        \/ BackupLockDst(p)
        \/ BackupCopy(p)
        \/ BackupUnlock(p)
        \/ BackupClose(p)
        \/ WriteOpen(p)
        \/ WriteLock(p)
        \/ WriteUnlock(p)
        \/ WriteClose(p)

SpecConc == InitConc /\ [][NextConc]_vars

AllDone == \A p \in Procs : proc[p].pc = "done"

\* C2: when two create_tenant calls for the same tenant_id, one not in the
\* document before, have both returned, exactly one returned True, and the
\* persisted document holds that tenant with exactly one user, the admin of
\* the call that returned True.
C2_ConcurrentCreateOneWinner ==
    \A p, q \in Procs :
        (/\ p # q
         /\ proc[p].pc = "done" /\ proc[q].pc = "done"
         /\ proc[p].op = "create_tenant" /\ proc[q].op = "create_tenant"
         /\ proc[p].tenant_id = "dup" /\ proc[q].tenant_id = "dup") =>
            /\ proc[p].result # proc[q].result
            /\ "dup" \in DOMAIN Doc
            /\ \A w \in {p, q} : proc[w].result = TRUE =>
                  DOMAIN Doc["dup"].users = {proc[w].username}

\* C4: once every concurrent call has returned, every tenant and every user
\* whose create_tenant or add_user returned success is in the persisted
\* document.
C4_NoLostUpdate ==
    AllDone =>
        \A p \in Procs :
            (proc[p].op \in {"create_tenant", "add_user"}
             /\ proc[p].result = TRUE) =>
                /\ proc[p].tenant_id \in DOMAIN Doc
                /\ proc[p].username
                     \in DOMAIN Doc[proc[p].tenant_id].users

\* C5: no step of one caller changes the primary file while another caller
\* holds a lock on it, shared (a reader) or exclusive (a writer).
C5_NoWriteUnderForeignLock ==
    [][ \A p \in Procs :
          (proc'[p] # proc[p] /\ primary' # primary) =>
              \A q \in Procs \ {p} : lockP[q] = "none" ]_vars

(***************************************************************************)
(* SpecScope: tenant-scoped calls in flight.  The gateway serves            *)
(* /experiments, /experiments/{id}/runs and /models through the dependency  *)
(* get_mlflow_client (a plain def: FastAPI runs it on a worker thread) and  *)
(* /train in a coroutine on the event loop; the front end renders each      *)
(* session's dashboard on a thread of its own.  mlflow.set_tracking_uri     *)
(* assigns a global of the process; mlflow.start_run and                    *)
(* mlflow.search_experiments read it.                                       *)
(***************************************************************************)
\* "client": the three endpoints behind get_mlflow_client
RequestKinds == {"client", "train", "dashboard"}

HostOf(kind) == IF kind = "dashboard" THEN "frontend" ELSE "gateway"

\* the X-Tenant-Id header of a gateway request (None: no header), or the
\* current_tenant of the session that renders (None: not logged in); "ghost"
\* is an id with no record in the registry or the document
RequestTenants == TenantIds \cup {"ghost", None}

ScopePassword == "pw123!"

\* the document after create_tenant for acme and then for dup
ScopeDocFirst ==
    create_tenant(EmptyDict, "acme",
        [name |-> "Acme", mlflow_uri |-> "uri_a", artifact_root |-> "/art/a"],
        "admin", ScopePassword, 0, 0).data

ScopeDoc ==
    create_tenant(ScopeDocFirst, "dup",
        [name |-> "Other", mlflow_uri |-> "uri_b", artifact_root |-> "/art/b"],
        "admin", ScopePassword, 1, 1).data

InitScope ==
    /\ primary = JsonFile(ScopeDoc)
    /\ backup = JsonFile(ScopeDocFirst)
    /\ now = 2
    /\ ret = NoCall
    /\ created_ok = [t \in TenantIds |-> 1]
    /\ plaintext = [k \in {<<"acme", "admin">>, <<"dup", "admin">>} |->
                      ScopePassword]
    /\ InitSession
    /\ InitProcs
    /\ InitGateway

\* faulty variant: an unknown id is served with some tenant's record
get_tenant_default(registry, tenant_id) ==
    [status |-> "200",
     tenant |-> IF tenant_id \in DOMAIN registry THEN registry[tenant_id]
                ELSE registry[CHOOSE t \in DOMAIN registry : TRUE]]

\* TenantManager.get_tenant: HTTPException(404) for an id not in the registry
get_tenant(registry, tenant_id) ==
    IF tenant_id \notin DOMAIN registry
    THEN [status |-> "404", tenant |-> None]
    ELSE [status |-> "200", tenant |-> registry[tenant_id]]

\* a request that ended before any tenant record was used
Rejected(kind, tenant_id, status) ==
    [pc |-> "done", kind |-> kind, tenant_id |-> tenant_id,
     status |-> status, uri |-> None, set_uri |-> FALSE, used_uri |-> None]

\* a request holding tenant["mlflow_uri"] of its tenant's record
Resolved(kind, tenant_id, uri) ==
    [pc |-> "resolved", kind |-> kind, tenant_id |-> tenant_id,
     status |-> "pending", uri |-> uri, set_uri |-> FALSE, used_uri |-> None]

\* get_tenant_id and get_tenant: Header(...) makes the header required
\* (FastAPI answers 422 without it), get_tenant raises 404
ResolveGateway(kind, tenant_id) ==
    IF tenant_id = None THEN Rejected(kind, tenant_id, "422")
    ELSE LET found == get_tenant(tenants, tenant_id)
         IN  IF found.status = "404"
             THEN Rejected(kind, tenant_id, "404")
             ELSE Resolved(kind, tenant_id, found.tenant.mlflow_uri)

\* main() and the head of display_dashboard (app.py 331-335, 238-243)
ResolveDashboard(kind, tenant_id) ==
    IF tenant_id = None THEN Rejected(kind, tenant_id, "login")
    ELSE IF ~TenantInfoFound(Doc, tenant_id)
    THEN Rejected(kind, tenant_id, "not_found")
    ELSE Resolved(kind, tenant_id, get_tenant_info(Doc, tenant_id).mlflow_uri)

\* the body of train_model runs on the event loop without an await, so no
\* other coroutine runs between its set_tracking_uri and its start_run
OnEventLoop(r) == r.pc = "uri_set" /\ r.kind = "train"

EventLoopFree(p) == \A q \in Procs \ {p} : ~OnEventLoop(proc[q])

\* a request arrives and its tenant context is resolved
Receive(p) ==
    /\ proc[p].pc = "idle"
    /\ \E kind \in RequestKinds, t \in RequestTenants :
          proc' = [proc EXCEPT ![p] =
                      IF kind = "dashboard" THEN ResolveDashboard(kind, t)
                      ELSE ResolveGateway(kind, t)]
    /\ UNCHANGED <<storeVars, ret, histVars, sessionVars, scopeVars,
                   lockP, lockB>>

\* mlflow.set_tracking_uri(tenant["mlflow_uri"])
\* (gateway/main.py 85 and 131, frontend/app.py 39)
SetTrackingUri(p) ==
    /\ proc[p].pc = "resolved"
    /\ proc[p].kind = "train" => EventLoopFree(p)
    /\ tracking_uri' = [tracking_uri EXCEPT ![HostOf(proc[p].kind)] =
                           proc[p].uri]
    /\ proc' = [proc EXCEPT ![p].pc = "uri_set", ![p].set_uri = TRUE]
    /\ UNCHANGED <<storeVars, ret, histVars, sessionVars, tenants,
                   lockP, lockB>>

\* the URI the backend call is addressed to: the client's own
\* (MlflowClient(tracking_uri=...), line 86) or the global of the process
\* (mlflow.start_run, line 133; mlflow.search_experiments, app.py 42)
UriInEffect(r) ==
    IF r.kind = "client" THEN r.uri ELSE tracking_uri[HostOf(r.kind)]

\* the search or run of the request starts
Query(p) ==
    /\ proc[p].pc = "uri_set"
    /\ proc[p].kind = "client" => EventLoopFree(p)
    /\ proc' = [proc EXCEPT ![p].pc = "done", ![p].status = "200",
                            ![p].used_uri = UriInEffect(proc[p])]
    /\ UNCHANGED <<storeVars, ret, histVars, sessionVars, scopeVars,
                   lockP, lockB>>

\* the response is sent; the thread takes the next request
Finish(p) ==
    /\ proc[p].pc = "done"
    /\ proc' = [proc EXCEPT ![p] = Idle]
    /\ UNCHANGED <<storeVars, ret, histVars, sessionVars, scopeVars,
                   lockP, lockB>>

NextScope ==
    \E p \in Procs :
        \/ Receive(p)
        \/ SetTrackingUri(p)
        \/ Query(p)
        \/ Finish(p)

SpecScope == InitScope /\ [][NextScope]_vars

\* the requests in flight or answered
Requests == { proc[p] : p \in { q \in Procs : proc[q].pc # "idle" } }

\* C14: every backend search or run a tenant-scoped call has started was
\* addressed to the mlflow_uri of the call's own tenant.
C14_CallsUseOwnTenantUri ==
    \A r \in Requests :
        (r.pc = "done" /\ r.status = "200") => r.used_uri = r.uri

\* the registry record a request's tenant id names on its host
TenantRecords(r) ==
    IF HostOf(r.kind) = "gateway" THEN tenants ELSE Doc

\* C15: a gateway request without tenant header ends with 422 and one whose
\* tenant_id is not in the registry with 404, neither having set a tracking
\* URI; a dashboard is rendered only for a session whose current_tenant is
\* set and has a record in the document; every request that went on holds
\* the mlflow_uri of the record its own tenant id names.
C15_NoCallWithoutTenantContext ==
    \A r \in Requests :
        /\ (HostOf(r.kind) = "gateway" /\ r.tenant_id = None) =>
              r.pc = "done" /\ r.status = "422" /\ ~r.set_uri
        /\ (/\ HostOf(r.kind) = "gateway"
            /\ r.tenant_id # None
            /\ r.tenant_id \notin DOMAIN tenants) =>
              r.pc = "done" /\ r.status = "404" /\ ~r.set_uri
        /\ (/\ HostOf(r.kind) = "frontend"
            /\ \/ r.tenant_id = None
               \/ r.tenant_id \notin DOMAIN Doc) =>
              /\ r.pc = "done"
              /\ r.status \in {"login", "not_found"}
              /\ ~r.set_uri
        /\ (r.set_uri \/ r.status = "200" \/ r.pc \in {"resolved", "uri_set"}) =>
              /\ r.tenant_id # None
              /\ r.tenant_id \in DOMAIN TenantRecords(r)
              /\ r.uri = TenantRecords(r)[r.tenant_id].mlflow_uri
        /\ r.used_uri # None => r.set_uri

\* a request for an id the registry does not hold has been answered 404
\* while another tenant's request has set the tracking URI of the gateway
C15_Witness ==
    \E r, v \in Requests :
        /\ r.kind = "train"
        /\ r.tenant_id = "ghost"
        /\ r.status = "404"
        /\ v.kind = "client"
        /\ v.pc = "uri_set"
        /\ tracking_uri["gateway"] = v.uri

(***************************************************************************)
(* SpecFault: sequential calls of the core on a store that can fail.  A    *)
(* read can end in an OSError (open, flock, read); a write can fail at the *)
(* open of the primary or, the primary already truncated, at json.dump or  *)
(* at the flush of the buffer.                                             *)
(***************************************************************************)
ReadFaults == {"none", "io_error"}
WriteFaults == {"none", "open", "dump"}

\* the arguments the calls of SpecFault do not vary
FaultPassword == "pw123!"
FaultRole == "viewer"
FaultProfile ==
    [name |-> "Acme", mlflow_uri |-> "uri_a", artifact_root |-> "/art/a"]

\* safe_read_json(USERS_FILE) when open, flock or read can raise: the
\* except clause of lines 42-45 returns {} and nothing reaches the caller
read_tenant_users(file, bak, fault) ==
    [raised |-> FALSE,
     data |-> IF fault = "io_error" THEN EmptyDict
              ELSE safe_read_json(file, bak)]

\* safe_write_json: what it leaves in the two files and whether it raises
\* (line 73).  The backup copy of lines 51-59 comes first; "open" fails at
\* makedirs / open(file_path, 'w'), "dump" after open has truncated the
\* primary
safe_write_json(file, bak, data, fault) ==
    IF fault = "none"
    THEN [raised |-> FALSE, primary |-> PrimaryAfterWrite(data),
          backup |-> BackupAfterWrite(file, bak)]
    ELSE IF fault = "open"
    THEN [raised |-> TRUE, primary |-> file,
          backup |-> BackupAfterWrite(file, bak)]
    ELSE [raised |-> TRUE, primary |-> EmptyFile,
          backup |-> BackupAfterWrite(file, bak)]

\* faulty variant: the exception of safe_write_json is swallowed
write_tenant_users_swallowed(file, bak, data, fault) ==
    [safe_write_json(file, bak, data, fault) EXCEPT !.raised = FALSE]

\* save_tenant_users (lines 81-88): the exception is logged and re-raised
write_tenant_users(file, bak, data, fault) ==
    safe_write_json(file, bak, data, fault)

NoFaultCall ==
    [op |-> "none", tenant_id |-> None, username |-> None, ok |-> FALSE,
     message |-> None, read_fault |-> "none", read_raised |-> FALSE,
     save_called |-> FALSE, save_raised |-> FALSE, doc |-> EmptyDict]

\* the call's return after save_tenant_users: the except clauses of lines
\* 141-144 and 174-177 turn an exception into the failure return
FaultReturn(op, tenant_id, username, read_fault, r, saved) ==
    [op |-> op, tenant_id |-> tenant_id, username |-> username,
     ok |-> r.ok /\ ~(r.write /\ saved.raised),
     message |-> IF r.write /\ saved.raised
                 THEN "Error"
                 ELSE IF op = "add_user" THEN r.message ELSE None,
     read_fault |-> read_fault, read_raised |-> FALSE,
     save_called |-> r.write, save_raised |-> r.write /\ saved.raised,
     doc |-> r.data]

\* load, decide, save and return with the faults rf (read) and wf (write)
FaultCall(op, tenant_id, username, r, rf, wf) ==
    \E saved \in { write_tenant_users(primary, backup, r.data, wf) } :
        /\ (r.write /\ ~saved.raised) => now < MaxWrites
        /\ IF r.write
           THEN /\ primary' = saved.primary
                /\ backup' = saved.backup
                /\ now' = IF saved.raised THEN now ELSE now + 1
           ELSE /\ wf = "none"
                /\ UNCHANGED storeVars
        /\ ret' = FaultReturn(op, tenant_id, username, rf, r, saved)
        /\ plaintext' = IF ret'.ok
                        THEN DictSet(plaintext, <<tenant_id, username>>,
                                     FaultPassword)
                        ELSE plaintext
        /\ created_ok' = IF ret'.ok /\ op = "create_tenant"
                         THEN [created_ok EXCEPT ![tenant_id] = @ + 1]
                         ELSE created_ok

FaultCreateTenant ==
    \E t \in TenantIds, u \in Usernames, rf \in ReadFaults,
       wf \in WriteFaults :
        /\ FaultCall("create_tenant", t, u,
              create_tenant(read_tenant_users(primary, backup, rf).data, t,
                            FaultProfile, u, FaultPassword, gensalt, now),
              rf, wf)
        /\ UNCHANGED <<sessionVars, concVars, scopeVars>>

FaultAddUser ==
    \E t \in TenantIds, u \in Usernames, rf \in ReadFaults,
       wf \in WriteFaults :
        /\ FaultCall("add_user", t, u,
              add_user(read_tenant_users(primary, backup, rf).data, t, u,
                       FaultPassword, FaultRole, gensalt, now),
              rf, wf)
        /\ UNCHANGED <<sessionVars, concVars, scopeVars>>

\* a bare load_tenant_users(), as authenticate_user, get_tenant_users and
\* get_tenant_info make it
FaultLoad ==
    \E rf \in ReadFaults :
        \E got \in { read_tenant_users(primary, backup, rf) } :
            /\ ret' = [NoFaultCall EXCEPT !.op = "load_tenant_users",
                                          !.ok = ~got.raised,
                                          !.read_fault = rf,
                                          !.read_raised = got.raised,
                                          !.doc = got.data]
            /\ UNCHANGED <<storeVars, histVars, sessionVars, concVars,
                           scopeVars>>

NextFault == FaultCreateTenant \/ FaultAddUser \/ FaultLoad

SpecFault == Init /\ [][NextFault]_vars

\* json.load raises JSONDecodeError on the file
Corrupt(file) == PathExists(file) /\ ~Parses(file)

\* the four cases of the claim
ExpectedRead(file, bak) ==
    IF ~PathExists(file) THEN EmptyDict
    ELSE IF ~Corrupt(file) THEN JsonLoad(file.text)
    ELSE IF PathExists(bak) /\ ~Corrupt(bak) THEN JsonLoad(bak.text)
    ELSE EmptyDict

\* C16: safe_read_json on the primary returns the empty document when the
\* primary does not exist, the parsed primary when it is well-formed, the
\* parsed backup when the primary is corrupt and the backup well-formed, the
\* empty document when the primary is corrupt and the backup missing or
\* corrupt; no load_tenant_users call raised, with or without an I/O error.
C16_ReadFourCases ==
    /\ safe_read_json(primary, backup) = ExpectedRead(primary, backup)
    /\ \A rf \in ReadFaults :
          ~read_tenant_users(primary, backup, rf).raised
    /\ ret.op = "load_tenant_users" =>
          /\ ~ret.read_raised
          /\ ret.read_fault = "none" =>
                ret.doc = ExpectedRead(primary, backup)

\* a load has returned a non-empty document from the backup, the primary
\* being corrupt
C16_Witness ==
    /\ ret.op = "load_tenant_users"
    /\ ret.read_fault = "none"
    /\ Corrupt(primary)
    /\ Parses(backup)
    /\ ret.doc # EmptyDict
    /\ ret.doc = JsonLoad(backup.text)

\* the users persisted by the calls that returned success so far
Persisted == DOMAIN plaintext

\* C17: a create_tenant or add_user call that returns success leaves a
\* document holding every tenant and user persisted successfully before;
\* a call whose load failed with an I/O error does not write.
C17_ReadFailureNeverLosesRecords ==
    (ret.op \in {"create_tenant", "add_user"}) =>
        /\ ret.ok =>
              \A k \in Persisted :
                  /\ k[1] \in DOMAIN Doc
                  /\ k[2] \in DOMAIN Doc[k[1]].users
        /\ ret.read_fault = "io_error" => ~ret.save_called

\* C18: when the write fails, save_tenant_users raises to its caller, and
\* the call that asked for the write does not return success.
C18_WriteFailureSurfaces ==
    /\ \A wf \in WriteFaults \ {"none"} :
          /\ safe_write_json(primary, backup, Doc, wf).raised
          /\ write_tenant_users(primary, backup, Doc, wf).raised
    /\ (ret.op \in {"create_tenant", "add_user"} /\ ret.save_called) =>
          /\ ret.save_raised => ~ret.ok
          /\ ~ret.save_raised => ret.ok

\* a create_tenant for a new tenant_id has returned False because the write
\* failed after truncating the primary
C18_Witness ==
    /\ ret.op = "create_tenant"
    /\ ret.save_called
    /\ ret.save_raised
    /\ ~ret.ok
    /\ primary = EmptyFile
    /\ ret.tenant_id \notin DOMAIN Doc

C25_CrashSafeRecovery ==
    Persisted # {} =>
        /\ load_tenant_users # EmptyDict
        /\ Parses(primary) \/ Parses(backup)

\* C26: a safe_write_json(primary, D) that completes leaves D in the primary;
\* it leaves in the backup what the primary held before the call when the
\* primary existed, and leaves the backup as it was when it did not.
C26_BackupHoldsPreviousPrimary ==
    [][ (/\ ret'.op \in {"create_tenant", "add_user"}
         /\ ret'.save_called
         /\ ~ret'.save_raised) =>
            /\ primary' = JsonFile(ret'.doc)
            /\ JsonLoad(primary'.text) = ret'.doc
            /\ PathExists(primary) => backup' = primary
            /\ ~PathExists(primary) => backup' = backup ]_vars

\* an add_user has completed its write over an existing primary: the backup
\* holds the document without the new user, the primary the one with it
C26_Witness ==
    /\ ret.op = "add_user"
    /\ ret.save_called
    /\ ~ret.save_raised
    /\ primary = JsonFile(ret.doc)
    /\ Parses(backup)
    /\ ret.tenant_id \in DOMAIN JsonLoad(backup.text)
    /\ ret.username \notin DOMAIN JsonLoad(backup.text)[ret.tenant_id].users
    /\ ret.username \in DOMAIN Doc[ret.tenant_id].users

\* C27: a create_tenant call that returned False found its tenant_id in the
\* persisted document; no call whose write failed returned the same False.
C27_FalseMeansAlreadyExists ==
    (ret.op = "create_tenant" /\ ~ret.ok) =>
        /\ ~ret.save_raised
        /\ ret.tenant_id \in DOMAIN Doc

(***************************************************************************)
(* SpecGateway: the tenant-management endpoints of the gateway.  The       *)
(* registry is what TenantManager() loaded from tenants.json; each client  *)
(* thread sends one request after another and keeps the last response.     *)
(***************************************************************************)
\* the tenant_id of a request: a registered id or one the registry lacks
GatewayIds == TenantIds \cup {"ghost"}

GatewayName == "Acme"

\* TenantManager.load_tenants of a tenants.json holding the ids of S
LoadedTenants(S) == [t \in S |-> GatewayTenant(t, t, 0)]

InitManagement ==
    /\ InitStore
    /\ InitSession
    /\ InitProcs
    /\ tenants \in { LoadedTenants(S) : S \in SUBSET TenantIds }
    /\ tracking_uri = [h \in Hosts |-> None]

\* TenantManager.create_tenant.  For an id not in the registry the dict of
\* lines 38-43 is built first, and line 40 evaluates pd.Timestamp.now():
\* the module never imports pd, so NameError is raised before
\* self.tenants[tenant_id] is assigned and before save_tenants; FastAPI
\* answers 500
gateway_create_tenant(registry, tenant_id, tenant_name) ==
    IF tenant_id \in DOMAIN registry
    THEN [status |-> "400", detail |-> "Tenant already exists",
          registry |-> registry]
    ELSE [status |-> "500", detail |-> "NameError: name 'pd' is not defined",
          registry |-> registry]

\* TenantManager.list_tenants: list(self.tenants.keys())
list_tenants(registry) == DOMAIN registry

\* the response a client holds
Response(op, tenant_id, status, detail, listed) ==
    [pc |-> "done", op |-> op, tenant_id |-> tenant_id,
     status |-> status, detail |-> detail, listed |-> listed]

\* POST /tenants
PostTenants(p) ==
    \E t \in GatewayIds :
        \E r \in { gateway_create_tenant(tenants, t, GatewayName) } :
            /\ tenants' = r.registry
            /\ proc' = [proc EXCEPT ![p] =
                           Response("post_tenants", t, r.status, r.detail,
                                    {})]
            /\ UNCHANGED <<storeVars, ret, histVars, sessionVars,
                           tracking_uri, lockP, lockB>>

\* GET /tenants
GetTenants(p) ==
    /\ proc' = [proc EXCEPT ![p] =
                   Response("get_tenants", None, "200", None,
                            list_tenants(tenants))]
    /\ UNCHANGED <<storeVars, ret, histVars, sessionVars, scopeVars,
                   lockP, lockB>>

\* GET /tenants/{tenant_id}
GetTenantById(p) ==
    \E t \in GatewayIds :
        \E r \in { get_tenant(tenants, t) } :
            /\ proc' = [proc EXCEPT ![p] =
                           Response("get_tenant", t, r.status,
                                    IF r.status = "404"
                                    THEN "Tenant not found" ELSE None,
                                    {})]
            /\ UNCHANGED <<storeVars, ret, histVars, sessionVars, scopeVars,
                           lockP, lockB>>

NextGateway ==
    \E p \in Procs :
        \/ PostTenants(p)
        \/ GetTenants(p)
        \/ GetTenantById(p)

SpecGateway == InitManagement /\ [][NextGateway]_vars

\* C21: a POST /tenants with an id the registry lacks is answered 200 and
\* puts the id's record into the registry, where GET /tenants lists it and
\* GET /tenants/{id} finds it; a POST with a registered id is answered
\* 'Tenant already exists' and leaves the registry as it was; a
\* GET /tenants/{id} for an unknown id is answered 'Tenant not found'.
C21_GatewayTenantCrud ==
    [][ \A p \in Procs :
          (proc'[p] # proc[p]) =>
            /\ proc'[p].op = "post_tenants" =>
                  IF proc'[p].tenant_id \notin DOMAIN tenants
                  THEN /\ proc'[p].status = "200"
                       /\ proc'[p].tenant_id \in list_tenants(tenants')
                       /\ get_tenant(tenants', proc'[p].tenant_id).status
                             = "200"
                  ELSE /\ proc'[p].status = "400"
                       /\ proc'[p].detail = "Tenant already exists"
                       /\ tenants' = tenants
            /\ (/\ proc'[p].op = "get_tenant"
                /\ proc'[p].tenant_id \notin DOMAIN tenants) =>
                  /\ proc'[p].status = "404"
                  /\ proc'[p].detail = "Tenant not found" ]_vars

(***************************************************************************)
(* SpecHash: hash_password and verify_password as functions of their       *)
(* arguments.  The bcrypt package either ignores the bytes of a password   *)
(* beyond the 72nd (releases before 5.0) or raises ValueError for such a   *)
(* password (5.0 and later); the source pins neither.                      *)
(***************************************************************************)
BcryptBuilds == {"truncates", "rejects"}

\* 72 bytes
LongPrefix ==
    "aaaaaaaaaaaaaaaaaaaaaaaaaaaaaaaaaaaaaaaaaaaaaaaaaaaaaaaaaaaaaaaaaaaaaaaa"

\* the short passwords, the empty one, and two of 73 bytes that differ in
\* the last byte
HashPasswords == Passwords \cup {"", LongPrefix \o "x", LongPrefix \o "y"}

HashSalts == 0..MaxWrites

NoHash == [salt |-> 0, digest |-> <<>>]

\* bcrypt raises ValueError on the password
BcryptRejects(build, password) ==
    build = "rejects" /\ Len(password) > BcryptMaxBytes

\* hash_password (lines 90-99): an exception of bcrypt.hashpw is re-raised
hash_password_on(build, password, salt) ==
    IF BcryptRejects(build, password)
    THEN [raised |-> TRUE, hashed |-> NoHash]
    ELSE [raised |-> FALSE, hashed |-> hash_password(password, salt)]

\* verify_password (lines 101-109): an exception of bcrypt.checkpw is
\* turned into False
verify_password_on(build, password, hashed) ==
    IF BcryptRejects(build, password) THEN FALSE
    ELSE verify_password(password, hashed)

\* hash_password(password)
HashPassword ==
    \E build \in BcryptBuilds, p \in HashPasswords, salt \in HashSalts :
        \E h \in { hash_password_on(build, p, salt) } :
            /\ ret' = [op |-> "hash_password", build |-> build,
                       password |-> p, other |-> p,
                       raised |-> h.raised, hashed |-> h.hashed,
                       ok |-> ~h.raised]
            /\ UNCHANGED <<storeVars, histVars, sessionVars, concVars,
                           scopeVars>>

\* verify_password(password, hash_password(other))
VerifyPassword ==
    \E build \in BcryptBuilds, p \in HashPasswords, q \in HashPasswords,
       salt \in HashSalts :
        \E h \in { hash_password_on(build, q, salt) } :
            /\ ret' = [op |-> "verify_password", build |-> build,
                       password |-> p, other |-> q,
                       raised |-> h.raised, hashed |-> h.hashed,
                       ok |-> /\ ~h.raised
                              /\ verify_password_on(build, p, h.hashed)]
            /\ UNCHANGED <<storeVars, histVars, sessionVars, concVars,
                           scopeVars>>

NextHash == HashPassword \/ VerifyPassword

SpecHash == Init /\ [][NextHash]_vars

\* C22: hash_password returns a digest for every password, a salted term
\* and not the password; verify_password(p, hash_password(p)) is True, and
\* verify_password(p, hash_password(q)) is False whenever p and q differ.
C22_HashVerifyLaws ==
    /\ ret.op = "hash_password" =>
          /\ ~ret.raised
          /\ ret.hashed # NoHash
          /\ ret.hashed.digest # <<ret.password>>
    /\ (ret.op = "verify_password" /\ ret.password = ret.other) =>
          ~ret.raised /\ ret.ok
    /\ (ret.op = "verify_password" /\ ret.password # ret.other) =>
          ~ret.ok


(***************************************************************************)
(* SpecRead: safe_read_json frame by frame.  A JSONDecodeError on a file   *)
(* calls safe_read_json(BACKUP_FILE) whenever the backup exists (lines     *)
(* 36-38), also when the file that failed to parse is the backup itself;   *)
(* every frame keeps its file open and locked shared until it returns.     *)
(* The interpreter refuses a call beyond its recursion limit with          *)
(* RecursionError, which the except clause of lines 42-45 turns into {}.   *)
(***************************************************************************)
\* nested safe_read_json frames the interpreter allows a caller
RecursionLimit == 3

\* empty: a dump that failed after open(path, 'w'); garbage: the flushes of
\* two writers over each other
ReadFiles == {AbsentFile, EmptyFile, GarbageFile, JsonFile(SeedDoc)}

InitRead ==
    /\ primary \in ReadFiles
    /\ backup \in ReadFiles
    /\ now = 0
    /\ ret = NoCall
    /\ created_ok = [t \in TenantIds |-> 0]
    /\ plaintext = EmptyDict
    /\ InitSession
    /\ InitProcs
    /\ InitGateway

FileAt(path) == IF path = "primary" THEN primary ELSE backup

\* one activation of safe_read_json(file_path)
Frame(path) == [path |-> path, open |-> FALSE]

\* load_tenant_users line 77: safe_read_json(USERS_FILE)
ReadCall(p) ==
    /\ proc[p].pc = "idle"
    /\ proc' = [proc EXCEPT ![p] =
                  [pc |-> "exists", stack |-> <<Frame("primary")>>,
                   raised |-> FALSE, data |-> EmptyDict]]
    /\ UNCHANGED <<storeVars, ret, histVars, sessionVars, scopeVars, lockP, lockB>>

\* lines 22-28: os.path.exists, open, flock(LOCK_SH)
ReadExists(p) ==
    /\ proc[p].pc = "exists"
    /\ LET c == proc[p]
           n == Len(c.stack)
       IN  proc' = [proc EXCEPT ![p] =
              IF PathExists(FileAt(c.stack[n].path))
              THEN [c EXCEPT !.stack[n].open = TRUE, !.pc = "load"]
              ELSE [c EXCEPT !.data = EmptyDict, !.pc = "return"]]
    /\ UNCHANGED <<storeVars, ret, histVars, sessionVars, scopeVars, lockP, lockB>>

\* lines 30-39 and 42-45: json.load; on JSONDecodeError the call of
\* safe_read_json(BACKUP_FILE), which the interpreter refuses at its limit
ReadJsonLoad(p) ==
    /\ proc[p].pc = "load"
    /\ LET c == proc[p]
           file == FileAt(c.stack[Len(c.stack)].path)
       IN  proc' = [proc EXCEPT ![p] =
              IF Parses(file)
              THEN [c EXCEPT !.data = JsonLoad(file.text), !.pc = "return"]
              ELSE IF ~PathExists(backup)
              THEN [c EXCEPT !.data = EmptyDict, !.pc = "return"]
              ELSE IF Len(c.stack) < RecursionLimit
              THEN [c EXCEPT !.stack = Append(c.stack, Frame("backup")),
                             !.pc = "exists"]
              ELSE [c EXCEPT !.raised = TRUE, !.data = EmptyDict,
                             !.pc = "return"]]
    /\ UNCHANGED <<storeVars, ret, histVars, sessionVars, scopeVars, lockP, lockB>>

\* lines 40-41 and the end of the with block: the frame unlocks and closes
\* its file and hands its value to its caller, which returns it (line 38)
ReadReturn(p) ==
    /\ proc[p].pc = "return"
    /\ LET c == proc[p]
       IN  proc' = [proc EXCEPT ![p] =
              [c EXCEPT !.stack = SubSeq(c.stack, 1, Len(c.stack) - 1),
                        !.pc = IF Len(c.stack) = 1 THEN "done" ELSE "return"]]
    /\ UNCHANGED <<storeVars, ret, histVars, sessionVars, scopeVars, lockP, lockB>>

NextRead ==
    \E p \in Procs :
        \/ ReadCall(p)
        \/ ReadExists(p)
        \/ ReadJsonLoad(p)
        \/ ReadReturn(p)

SpecRead == InitRead /\ [][NextRead]_vars

CallGetTenantUsers(tenant_id) ==
    /\ ret' = [op |-> "get_tenant_users", tenant_id |-> tenant_id,
               username |-> None, password |-> None, role |-> None,
               ok |-> TRUE, message |-> None, out_role |-> None,
               found |-> TenantExists(load_tenant_users, tenant_id),
               result |-> get_tenant_users(load_tenant_users, tenant_id)]
    /\ UNCHANGED <<storeVars, histVars>>

\* get_tenant_info(tenant_id), lines 215-220
CallGetTenantInfo(tenant_id) ==
    /\ ret' = [op |-> "get_tenant_info", tenant_id |-> tenant_id,
               username |-> None, password |-> None, role |-> None,
               ok |-> TRUE, message |-> None, out_role |-> None,
               found |-> TenantInfoFound(load_tenant_users, tenant_id),
               result |-> IF TenantInfoFound(load_tenant_users, tenant_id)
                          THEN get_tenant_info(load_tenant_users, tenant_id)
                          ELSE EmptyDict]
    /\ UNCHANGED <<storeVars, histVars>>

GetTenantUsers ==
    \E t \in TenantIds :
        /\ CallGetTenantUsers(t)
        /\ UNCHANGED <<sessionVars, concVars, scopeVars>>

GetTenantInfo ==
    \E t \in TenantIds :
        /\ CallGetTenantInfo(t)
        /\ UNCHANGED <<sessionVars, concVars, scopeVars>>

NextFrame ==
    \/ CreateTenant
    \/ AddUser
    \/ AuthenticateUser
    \/ GetTenantUsers
    \/ GetTenantInfo

SpecFrame == Init /\ [][NextFrame]_vars

\* the step changes a file or the clock of the store
StoreStep == primary' # primary \/ backup' # backup \/ now' # now

\* every tenant and user of the document old is in the document new with
\* the same fields
RecordsKept(old, new) ==
    \A t \in DOMAIN old :
        /\ t \in DOMAIN new
        /\ new[t].name = old[t].name
        /\ new[t].mlflow_uri = old[t].mlflow_uri
        /\ new[t].artifact_root = old[t].artifact_root
        /\ new[t].created_at = old[t].created_at
        /\ \A u \in DOMAIN old[t].users :
              /\ u \in DOMAIN new[t].users
              /\ new[t].users[u] = old[t].users[u]

\* the document new is the document old with one more user, username, in
\* tenant_id
OneUserAdded(old, new, tenant_id, username) ==
    /\ DOMAIN new = DOMAIN old
    /\ username \notin DOMAIN old[tenant_id].users
    /\ DOMAIN new[tenant_id].users =
          DOMAIN old[tenant_id].users \cup {username}
    /\ \A t \in DOMAIN old \ {tenant_id} : new[t] = old[t]

\* C28: no call changes a field of a tenant or of a user already persisted;
\* a successful add_user adds its username to its tenant's users and changes
\* no other entry; authenticate_user, get_tenant_users and get_tenant_info
\* leave both files as they were.
C28_RecordsWriteOnce ==
    [][ /\ StoreStep =>
              RecordsKept(Doc, safe_read_json(primary', backup'))
        /\ (ret'.op = "add_user" /\ ret'.ok) =>
              OneUserAdded(Doc, safe_read_json(primary', backup'),
                           ret'.tenant_id, ret'.username)
        /\ (ret'.op \in {"authenticate_user", "get_tenant_users",
                         "get_tenant_info"}) => ~StoreStep ]_vars

\* a listing has returned two users of one tenant, the second added after
\* the tenant was created
C28_Witness ==
    /\ ret.op = "get_tenant_users"
    /\ ret.found
    /\ Cardinality(DOMAIN ret.result) = 2
    /\ \E u \in DOMAIN ret.result :
          ret.result[u].created_at # Doc[ret.tenant_id].created_at
    /\ ret.result = Doc[ret.tenant_id].users

(***************************************************************************)
(* SpecLock: the callers of SpecConc, each with one writing or one reading *)
(* call, under a scheduler that runs every caller that can take a step: a  *)
(* thread is runnable unless it waits in flock, and the kernel wakes the   *)
(* waiters of a lock when it is released.  Starting a call is left to the  *)
(* caller.                                                                 *)
(***************************************************************************)
\* create_tenant: a reader of the primary, then a writer of backup and primary
StartWriter(p) ==
    /\ proc[p].pc = "idle"
    /\ proc' = [proc EXCEPT ![p] = Caller("create_tenant", "dup", "admin")]
    /\ UNCHANGED <<storeVars, ret, histVars, sessionVars, scopeVars, lockP, lockB>>

\* a step of a call of caller p that has started
CallStep(p) ==
    \/ ReadOpen(p)
    \/ ReadLock(p)
    \/ ReadLoad(p)
    \/ ReadBackupLock(p)
    \/ ReadBackupLoad(p)
    \/ ReadBackupUnlock(p)
    \/ ReadUnlock(p)
    \/ Decide(p)
    \/ BackupOpen(p)
    \/ BackupLockSrc(p)
    \/ BackupLockDst(p)
    \/ BackupCopy(p)
    \/ BackupUnlock(p)
    \/ BackupClose(p)
    \/ WriteOpen(p)
    \/ WriteLock(p)
    \/ WriteUnlock(p)
    \/ WriteClose(p)

NextLock ==
    \E p \in Procs :
        \/ StartWriter(p)
        \/ StartLoad(p)
        \/ CallStep(p)

SpecLock ==
    /\ InitConc
    /\ [][NextLock]_vars
    /\ \A p \in Procs : WF_vars(CallStep(p))

\* caller p is in flock and caller q holds a lock that keeps it there
WaitsFor(p, q) ==
    /\ p # q
    /\ \/ proc[p].pc \in {"r_lock", "w_bk_lock_src"} /\ lockP[q] = "ex"
       \/ proc[p].pc = "w_lock" /\ lockP[q] # "none"
       \/ proc[p].pc = "rb_lock" /\ lockB[q] = "ex"
       \/ proc[p].pc = "w_bk_lock_dst" /\ lockB[q] # "none"

\* a set of callers each of which waits for a member of the set
WaitCycle ==
    \E S \in SUBSET Procs \ {{}} :
        \A p \in S : \E q \in S : WaitsFor(p, q)

InCall(p) == proc[p].pc \notin {"idle", "done"}

Returned(p) ==
    proc[p].pc = "done" /\ lockP[p] = "none" /\ lockB[p] = "none"

\* C29: no state has a cycle of callers each waiting in flock for a lock
\* another of them holds; a caller outside a call holds no lock; and every
\* call that has started returns, all its locks released.
C29_LockProtocolLive ==
    /\ [](~WaitCycle)
    /\ [](\A p \in Procs :
            ~InCall(p) => (lockP[p] = "none" /\ lockB[p] = "none"))
    /\ \A p \in Procs : InCall(p) ~> Returned(p)

\* a writer waits in flock(LOCK_EX) on the primary, which a reader holds
\* shared
C29_Witness ==
    \E p, q \in Procs :
        /\ proc[p].pc = "w_lock"
        /\ proc[q].pc = "r_load"
        /\ lockP[q] = "sh"
        /\ WaitsFor(p, q)

====
